---- MODULE Spec2Model ----
(***************************************************************************)
(* Model of src/bldr/repo/client.rs: the repository client of bldr.        *)
(* fetch_key, fetch_package, show_package, put_key and put_package, with   *)
(* the private helpers url_show_package, download, upload and progress.    *)
(*                                                                         *)
(* A call is a process p with a program counter pc[p].  The file system is *)
(* a map from path to file; the HTTP server and the operating system are   *)
(* the environment: they choose the response, the size of every read, the  *)
(* number of bytes every write accepts and which system call fails.        *)
(***************************************************************************)
EXTENDS Integers, Sequences, FiniteSets, TLC

(***************************************************************************)
(* Bounds of the model.                                                    *)
(***************************************************************************)
\* longest response body / local file, in bytes
MaxBody == 3
\* size of download's stack buffer `buf` (100000 in the source, scaled down)
BufLen == 3
\* capacity of the BufWriter (std's default capacity, scaled down)
Capacity == 2
\* how many times the caller of upload re-invokes it on one handle
MaxUploads == 2

Procs == {1, 2}
Bytes == {1, 2}

RECURSIVE SeqsUpTo(_, _)
SeqsUpTo(S, n) ==
    IF n = 0 THEN {<<>>}
    ELSE LET shorter == SeqsUpTo(S, n - 1)
         IN  shorter \cup {Append(s, b) : s \in {t \in shorter : Len(t) = n - 1}, b \in S}

Bodies == SeqsUpTo(Bytes, MaxBody)

Min(a, b) == IF a < b THEN a ELSE b

Take(s, k) == SubSeq(s, 1, k)
Drop(s, k) == SubSeq(s, k + 1, Len(s))

(***************************************************************************)
(* hyper::status::StatusCode: the statuses the server answers with, and    *)
(* StatusCode::is_success (the 2xx class).                                 *)
(***************************************************************************)
StatusOk == 200
StatusNotFound == 404
Statuses == {200, 201, 404, 500}
is_success(s) == s >= 200 /\ s < 300

(***************************************************************************)
(* PackageIdent {origin, name, version: Option, release: Option}; an       *)
(* Option<String> is <<>> (None) or <<v>> (Some(v)).                       *)
(***************************************************************************)
Origins == {"core", "acme"}
Names == {"foo", "bar"}
Versions == {"1.0.0", "2.1"}
Releases == {"20160101", "20160202"}
Repos == {"http://repo.example", "https://r/base"}

Opt(S) == {<<>>} \cup {<<v>> : v \in S}

\* release present => version present (the identifier's invariant)
Idents ==
    {i \in [origin : Origins, name : Names, version : Opt(Versions), release : Opt(Releases)] :
        i.release # <<>> => i.version # <<>>}

NoIdent == [origin |-> "", name |-> "", version |-> <<>>, release |-> <<>>]

\* PackageIdent::fully_qualified
fully_qualified(i) == i.version # <<>> /\ i.release # <<>>

\* impl Display for PackageIdent: origin/name[/version[/release]]
IdentToString(i) ==
    IF i.version # <<>> /\ i.release # <<>>
    THEN i.origin \o "/" \o i.name \o "/" \o i.version[1] \o "/" \o i.release[1]
    ELSE IF i.version # <<>>
    THEN i.origin \o "/" \o i.name \o "/" \o i.version[1]
    ELSE i.origin \o "/" \o i.name

\* url_show_package with the two branches swapped
url_show_package_swapped(repo, package) ==
    IF fully_qualified(package)
    THEN repo \o "/pkgs/" \o IdentToString(package) \o "/latest"
    ELSE repo \o "/pkgs/" \o IdentToString(package)

url_show_package(repo, package) ==
    IF fully_qualified(package)
    THEN repo \o "/pkgs/" \o IdentToString(package)
    ELSE repo \o "/pkgs/" \o IdentToString(package) \o "/latest"

(***************************************************************************)
(* BldrResult: Ok(path) or Err(kind), one record shape for all.            *)
(***************************************************************************)
Pending == [tag |-> "None", kind |-> "", status |-> 0, ident |-> NoIdent, path |-> ""]
Ok(path) == [tag |-> "Ok", kind |-> "", status |-> 0, ident |-> NoIdent, path |-> path]
Err(kind) == [tag |-> "Err", kind |-> kind, status |-> 0, ident |-> NoIdent, path |-> ""]
ErrHTTP(s) == [tag |-> "Err", kind |-> "HTTP", status |-> s, ident |-> NoIdent, path |-> ""]
ErrRemotePackageNotFound(i) ==
    [tag |-> "Err", kind |-> "RemotePackageNotFound", status |-> 0, ident |-> i, path |-> ""]

(***************************************************************************)
(* The file system: every path the calls can name, each a file or nothing. *)
(***************************************************************************)
Store == "/store"
FileNames == {"a.bldr", "b.bldr"}
\* the temp path built without the file name: one path for every download
TempFileShared(path, file_name) == path \o "/" \o "a.bldr" \o ".tmp"

TempFile(path, file_name) == path \o "/" \o file_name \o ".tmp"
FinalFile(path, file_name) == path \o "/" \o file_name
Paths == {TempFile(Store, n) : n \in FileNames} \cup {FinalFile(Store, n) : n \in FileNames}

NoFile == [exists |-> FALSE, data |-> <<>>]
FileOf(data) == [exists |-> TRUE, data |-> data]
OldData == <<2, 2, 1, 1>>

(***************************************************************************)
(* The response of the server: status, the X-Filename header (present or   *)
(* not), the Content-Length header (present or not) and the body.          *)
(***************************************************************************)
ResponsesWith(bodies) ==
    [status : Statuses, hasName : BOOLEAN, name : FileNames, hasLen : BOOLEAN, body : bodies]
Responses == ResponsesWith(Bodies)
NoResponse == [status |-> 0, hasName |-> FALSE, name |-> "", hasLen |-> FALSE, body |-> <<>>]

\* res.headers.get::<XFileName>() rendered, or None
file_name_always(res) == <<res.name>>

file_name(res) == IF res.hasName THEN <<res.name>> ELSE <<>>

\* res.headers.get::<ContentLength>().map_or("Unknown", ...)
length(res) == IF res.hasLen THEN ToString(Len(res.body)) ELSE "Unknown"

\* the status test of download, mutated to accept the whole 2xx class
download_status_ok_2xx(s) == is_success(s)

download_status_ok(s) == s = StatusOk

VARIABLES
    active,     \* the calls that run
    op,         \* op[p]: the operation p was called for
    pc,         \* pc[p]: where p is
    repo,       \* repo[p]: the repository address passed in
    ident,      \* ident[p]: the PackageIdent / Package passed in
    key,        \* key[p]: the key name passed to fetch_key
    label,      \* label[p]: download's `status` argument (key or package name)
    url,        \* url[p]: the URL the call requests
    requests,   \* requests[p]: the HTTP requests p has issued, in order
    resp,       \* resp[p]: the response p received
    remaining,  \* remaining[p]: the part of the body not read yet
    chunk,      \* chunk[p]: buf[0..len] after a read
    fpath,      \* fpath[p]: where the file of handle `f` lives ("" = no handle)
    wbuf,       \* wbuf[p]: the bytes held by the BufWriter
    written,    \* written[p]: download's counter
    progress,   \* progress[p]: the calls of progress(), in order
    dropErr,    \* dropErr[p]: the flush in BufWriter's drop failed (and was ignored)
    dlResult,   \* dlResult[p]: what download returned
    result,     \* result[p]: what the operation returned
    lfile,      \* lfile[p]: content of the local file to upload
    lname,      \* lname[p]: path.file_name() of the local file
    fpos,       \* fpos[p]: position of the upload file handle
    fs,         \* the destination directory: path -> file
    fs0,        \* fs when the calls started
    served,     \* the bodies the server may answer with
    stdout,     \* stdout[p]: what p's print! / println! calls wrote, one string per call
    fcLength,   \* from_char called alone: its `length`
    fcCh,       \* from_char called alone: its `ch`
    fcOut       \* from_char called alone: what it returned (<<>> before the call)

fcVars == <<fcLength, fcCh, fcOut>>
callVars == <<active, op, repo, ident, key, lfile, lname, fs0, served, fcVars>>
netVars == <<label, url, requests, resp, remaining>>
dlVars == <<chunk, fpath, wbuf, written, progress, stdout, dropErr, dlResult>>
upVars == <<fpos>>
vars == <<callVars, netVars, dlVars, upVars, pc, result, fs>>

Get(u) == [method |-> "GET", url |-> u, body |-> <<>>, len |-> 0]
Post(u, body, len) == [method |-> "POST", url |-> u, body |-> body, len |-> len]

Set(f, p, v) == [f EXCEPT ![p] = v]

(***************************************************************************)
(* progress and from_char.  A String is a TLA+ string; its len() is Len.   *)
(***************************************************************************)
\* the character '\x08' (backspace), written "<" here
Backspace == "<"

\* from_char whose loop runs over 0..length
RECURSIVE from_char_loop(_, _, _, _)
from_char_from_zero(len, ch) ==
    IF len = 0 THEN "" ELSE from_char_loop(ch, ch, 0, len)

\* for _ in 1..length { buf.push(ch) }, from its i-th round on
from_char_loop(buf, ch, i, len) ==
    IF i >= len THEN buf ELSE from_char_loop(buf \o ch, ch, i + 1, len)

\* from_char: "" for length 0, else ch pushed once and then in the loop
from_char(len, ch) ==
    IF len = 0 THEN "" ELSE from_char_loop(ch, ch, 1, len)

\* output_format!(preamble status, "{}/{}", written, length)
output_format(status, n, len) == status \o " " \o ToString(n) \o "/" \o len

\* progress with the two arms of `if finished` swapped
progress_prints_swapped(status, n, len, finished) ==
    LET text == output_format(status, n, len)
    IN  <<from_char(Len(text), Backspace), IF finished THEN text ELSE text \o "\n">>

\* progress: the strings of its print! calls, in order
progress_prints(status, n, len, finished) ==
    LET text == output_format(status, n, len)
    IN  <<from_char(Len(text), Backspace), IF finished THEN text \o "\n" ELSE text>>

\* one call progress(status, written, &length, finished)
ProgressCall(status, n, len, finished) ==
    [status |-> status, written |-> n, length |-> len, finished |-> finished]

\* write(2) on the file of handle f: the bytes land at the end of the file
WriteFile(f, path, bytes) == [f EXCEPT ![path].data = @ \o bytes]

(***************************************************************************)
(* fetch_key and fetch_package: build the URL, call download.              *)
(***************************************************************************)
FetchKey(p) ==
    /\ pc[p] = "start" /\ op[p] = "fetch_key"
    /\ url' = Set(url, p, repo[p] \o "/keys/" \o key[p])
    /\ label' = Set(label, p, key[p])
    /\ pc' = Set(pc, p, "download")
    /\ UNCHANGED <<callVars, requests, resp, remaining, dlVars, upVars, result, fs>>

FetchPackage(p) ==
    /\ pc[p] = "start" /\ op[p] = "fetch_package"
    /\ url' = Set(url, p, repo[p] \o "/pkgs/" \o IdentToString(ident[p]) \o "/download")
    /\ label' = Set(label, p, ident[p].name)
    /\ pc' = Set(pc, p, "download")
    /\ UNCHANGED <<callVars, requests, resp, remaining, dlVars, upVars, result, fs>>

(***************************************************************************)
(* download, step by step.                                                 *)
(***************************************************************************)
\* let mut res = try!(client.get(url).send());  Calls that run together are
\* answered with different file names: a handle is followed by its path,
\* which is exact only as long as no two calls name the same file.
DownloadSend(p) ==
    /\ pc[p] = "download"
    /\ requests' = Set(requests, p, Append(requests[p], Get(url[p])))
    /\ \/ /\ dlResult' = Set(dlResult, p, Err("Hyper"))
          /\ pc' = Set(pc, p, "ret")
          /\ UNCHANGED <<resp, remaining>>
       \/ \E r \in ResponsesWith(served) :
              /\ \A q \in active \ {p} : resp[q].name # r.name
              /\ resp' = Set(resp, p, r)
              /\ remaining' = Set(remaining, p, r.body)
              /\ pc' = Set(pc, p, "status")
              /\ UNCHANGED dlResult
    /\ UNCHANGED <<callVars, label, url, chunk, fpath, wbuf, written, progress, stdout, dropErr,
                   upVars, result, fs>>

\* the status test and the X-Filename lookup
DownloadCheckResponse(p) ==
    /\ pc[p] = "status"
    /\ IF ~download_status_ok(resp[p].status)
       THEN /\ dlResult' = Set(dlResult, p, ErrHTTP(resp[p].status))
            /\ pc' = Set(pc, p, "ret")
       ELSE IF file_name(resp[p]) = <<>>
       THEN /\ dlResult' = Set(dlResult, p, Err("NoXFilename"))
            /\ pc' = Set(pc, p, "ret")
       ELSE /\ pc' = Set(pc, p, "create")
            /\ UNCHANGED dlResult
    /\ UNCHANGED <<callVars, netVars, chunk, fpath, wbuf, written, progress, stdout, dropErr,
                   upVars, result, fs>>

\* let f = try!(File::create(&tempfile)); BufWriter::new(&f); written = 0
DownloadCreate(p) ==
    /\ pc[p] = "create"
    /\ LET tempfile == TempFile(Store, file_name(resp[p])[1])
       IN  \/ /\ dlResult' = Set(dlResult, p, Err("Io"))
              /\ pc' = Set(pc, p, "ret")
              /\ UNCHANGED <<fpath, fs>>
           \/ /\ fs' = [fs EXCEPT ![tempfile] = FileOf(<<>>)]
              /\ fpath' = Set(fpath, p, tempfile)
              /\ pc' = Set(pc, p, "read")
              /\ UNCHANGED dlResult
    /\ wbuf' = Set(wbuf, p, <<>>)
    /\ written' = Set(written, p, 0)
    /\ UNCHANGED <<callVars, netVars, chunk, progress, stdout, dropErr, upVars, result>>

\* let len = try!(res.read(&mut buf)); the 0 => arm reports and breaks
DownloadRead(p) ==
    /\ pc[p] = "read"
    /\ \/ /\ dlResult' = Set(dlResult, p, Err("Io"))
          /\ pc' = Set(pc, p, "drop")
          /\ UNCHANGED <<remaining, chunk, progress, stdout>>
       \/ /\ remaining[p] = <<>>
          /\ progress' = Set(progress, p,
                 Append(progress[p], ProgressCall(label[p], written[p], length(resp[p]), TRUE)))
          /\ stdout' = Set(stdout, p,
                 stdout[p] \o progress_prints(label[p], written[p], length(resp[p]), TRUE))
          /\ pc' = Set(pc, p, "rename")
          /\ UNCHANGED <<remaining, chunk, dlResult>>
       \/ \E n \in 1..Min(BufLen, Len(remaining[p])) :
              /\ chunk' = Set(chunk, p, Take(remaining[p], n))
              /\ remaining' = Set(remaining, p, Drop(remaining[p], n))
              /\ pc' = Set(pc, p, "write")
              /\ UNCHANGED <<progress, stdout, dlResult>>
    /\ UNCHANGED <<callVars, label, url, requests, resp, fpath, wbuf, written, dropErr,
                   upVars, result, fs>>

\* the count of the last write alone
accepted_last(count, bytes_written) == bytes_written

\* written = written + (bytes_written as i64)
accepted(count, bytes_written) == count + bytes_written

\* the test of bytes_written left out
write_stalled_never(bytes_written) == FALSE

\* if bytes_written == 0
write_stalled(bytes_written) == bytes_written = 0

(***************************************************************************)
(* writer.write(&buf[0..len]) of a BufWriter, then the rest of the `_ =>`  *)
(* arm.  BufWriter::write first flushes its buffer when the slice does not *)
(* fit (fk bytes reach the file; fk < Len(wbuf) is a failed flush), then   *)
(* either hands a slice of at least its capacity to the file (the file     *)
(* accepts wk bytes, wk = -1 is an error), or copies the slice into its    *)
(* buffer and reports all of it written.                                   *)
(***************************************************************************)
DownloadWrite(p) ==
    /\ pc[p] = "write"
    /\ LET n == Len(chunk[p])
           mustFlush == Len(wbuf[p]) + n > Capacity
           direct == n >= Capacity
       IN  \E fk \in (IF mustFlush THEN 0..Len(wbuf[p]) ELSE {Len(wbuf[p])}),
              wk \in (IF direct THEN -1..n ELSE {n}) :
              LET flushed == IF mustFlush THEN Take(wbuf[p], fk) ELSE <<>>
                  kept == IF mustFlush THEN Drop(wbuf[p], fk) ELSE wbuf[p]
              IN  IF mustFlush /\ fk < Len(wbuf[p])
                  THEN \* try! on the failed flush
                       /\ fs' = WriteFile(fs, fpath[p], flushed)
                       /\ wbuf' = Set(wbuf, p, kept)
                       /\ dlResult' = Set(dlResult, p, Err("Io"))
                       /\ pc' = Set(pc, p, "drop")
                       /\ UNCHANGED <<written, progress, stdout>>
                  ELSE IF direct /\ wk = -1
                  THEN \* try! on the failed write
                       /\ fs' = WriteFile(fs, fpath[p], flushed)
                       /\ wbuf' = Set(wbuf, p, kept)
                       /\ dlResult' = Set(dlResult, p, Err("Io"))
                       /\ pc' = Set(pc, p, "drop")
                       /\ UNCHANGED <<written, progress, stdout>>
                  ELSE IF write_stalled(wk)
                  THEN \* return Err(bldr_error!(ErrorKind::WriteSyncFailed))
                       /\ fs' = WriteFile(fs, fpath[p], flushed)
                       /\ wbuf' = Set(wbuf, p, kept)
                       /\ dlResult' = Set(dlResult, p, Err("WriteSyncFailed"))
                       /\ pc' = Set(pc, p, "drop")
                       /\ UNCHANGED <<written, progress, stdout>>
                  ELSE /\ IF direct
                          THEN /\ fs' = WriteFile(fs, fpath[p], flushed \o Take(chunk[p], wk))
                               /\ wbuf' = Set(wbuf, p, kept)
                          ELSE /\ fs' = WriteFile(fs, fpath[p], flushed)
                               /\ wbuf' = Set(wbuf, p, kept \o chunk[p])
                       /\ written' = Set(written, p, accepted(written[p], wk))
                       /\ progress' = Set(progress, p,
                              Append(progress[p],
                                     ProgressCall(label[p], accepted(written[p], wk),
                                                  length(resp[p]), FALSE)))
                       /\ stdout' = Set(stdout, p,
                              stdout[p] \o progress_prints(label[p], accepted(written[p], wk),
                                                           length(resp[p]), FALSE))
                       /\ pc' = Set(pc, p, "read")
                       /\ UNCHANGED dlResult
    /\ UNCHANGED <<callVars, netVars, chunk, fpath, dropErr, upVars, result>>

\* a rename that removes the temp file when it fails
DownloadRenameCleanup(p) ==
    /\ pc[p] = "rename"
    /\ LET tempfile == TempFile(Store, file_name(resp[p])[1])
           finalfile == FinalFile(Store, file_name(resp[p])[1])
       IN  \/ /\ dlResult' = Set(dlResult, p, Err("Io"))
              /\ fs' = [fs EXCEPT ![tempfile] = NoFile]
              /\ UNCHANGED fpath
           \/ /\ fs' = [fs EXCEPT ![finalfile] = fs[tempfile], ![tempfile] = NoFile]
              /\ fpath' = Set(fpath, p, finalfile)
              /\ dlResult' = Set(dlResult, p, Ok(finalfile))
    /\ pc' = Set(pc, p, "drop")
    /\ UNCHANGED <<callVars, netVars, chunk, wbuf, written, progress, stdout, dropErr, upVars, result>>

\* try!(fs::rename(&tempfile, &finalfile)); Ok(finalfile)
DownloadRename(p) ==
    /\ pc[p] = "rename"
    /\ LET tempfile == TempFile(Store, file_name(resp[p])[1])
           finalfile == FinalFile(Store, file_name(resp[p])[1])
       IN  \/ /\ dlResult' = Set(dlResult, p, Err("Io"))
              /\ UNCHANGED <<fpath, fs>>
           \/ /\ fs' = [fs EXCEPT ![finalfile] = fs[tempfile], ![tempfile] = NoFile]
              /\ fpath' = Set(fpath, p, finalfile)
              /\ dlResult' = Set(dlResult, p, Ok(finalfile))
    /\ pc' = Set(pc, p, "drop")
    /\ UNCHANGED <<callVars, netVars, chunk, wbuf, written, progress, stdout, dropErr, upVars, result>>

(***************************************************************************)
(* download returns: `writer` goes out of scope.  BufWriter's drop flushes *)
(* the buffer to the file of `f` (wherever rename has put it) and ignores  *)
(* the error when the flush fails after fk bytes.                          *)
(***************************************************************************)
DownloadDrop(p) ==
    /\ pc[p] = "drop"
    /\ \E fk \in 0..Len(wbuf[p]) :
           /\ fs' = WriteFile(fs, fpath[p], Take(wbuf[p], fk))
           /\ dropErr' = Set(dropErr, p, fk < Len(wbuf[p]))
    /\ wbuf' = Set(wbuf, p, <<>>)
    /\ pc' = Set(pc, p, "ret")
    /\ UNCHANGED <<callVars, netVars, chunk, fpath, written, progress, stdout, dlResult, upVars, result>>

\* fetch_key with the 'not found' translation of fetch_package
FetchKeyReturnTranslating(p) ==
    /\ pc[p] = "ret" /\ op[p] = "fetch_key"
    /\ result' = Set(result, p,
           IF dlResult[p].kind = "HTTP" /\ dlResult[p].status = StatusNotFound
           THEN ErrRemotePackageNotFound(NoIdent)
           ELSE dlResult[p])
    /\ pc' = Set(pc, p, "done")
    /\ UNCHANGED <<callVars, netVars, dlVars, upVars, fs>>

\* fetch_key returns what download returned
FetchKeyReturn(p) ==
    /\ pc[p] = "ret" /\ op[p] = "fetch_key"
    /\ result' = Set(result, p, dlResult[p])
    /\ pc' = Set(pc, p, "done")
    /\ UNCHANGED <<callVars, netVars, dlVars, upVars, fs>>

\* the match of fetch_package
FetchPackageReturn(p) ==
    /\ pc[p] = "ret" /\ op[p] = "fetch_package"
    /\ result' = Set(result, p,
           IF dlResult[p].tag = "Ok" THEN Ok(dlResult[p].path)
           ELSE IF dlResult[p].kind = "HTTP" /\ dlResult[p].status = StatusNotFound
           THEN ErrRemotePackageNotFound(ident[p])
           ELSE dlResult[p])
    /\ pc' = Set(pc, p, "done")
    /\ UNCHANGED <<callVars, netVars, dlVars, upVars, fs>>

(***************************************************************************)
(* show_package.                                                           *)
(***************************************************************************)
Panicked == [tag |-> "Panic", kind |-> "", status |-> 0, ident |-> NoIdent, path |-> ""]

\* url_show_package, client.get(&url), try!(request.send())
ShowPackageSend(p) ==
    /\ pc[p] = "start" /\ op[p] = "show_package"
    /\ url' = Set(url, p, url_show_package(repo[p], ident[p]))
    /\ requests' = Set(requests, p,
           Append(requests[p], Get(url_show_package(repo[p], ident[p]))))
    /\ \/ /\ result' = Set(result, p, Err("Hyper"))
          /\ pc' = Set(pc, p, "done")
          /\ UNCHANGED <<resp, remaining>>
       \/ \E r \in ResponsesWith(served) :
              /\ resp' = Set(resp, p, r)
              /\ remaining' = Set(remaining, p, r.body)
              /\ pc' = Set(pc, p, "show_status")
              /\ UNCHANGED result
    /\ UNCHANGED <<callVars, label, dlVars, upVars, fs>>

\* the status test, read_to_string and json::decode(..).unwrap()
ShowPackageRespond(p) ==
    /\ pc[p] = "show_status"
    /\ IF resp[p].status # StatusOk
       THEN /\ result' = Set(result, p, ErrRemotePackageNotFound(ident[p]))
            /\ UNCHANGED remaining
       ELSE \/ /\ result' = Set(result, p, Err("Io"))
               /\ \E n \in 0..Len(remaining[p]) :
                      remaining' = Set(remaining, p, Drop(remaining[p], n))
            \/ /\ result' \in {Set(result, p, Ok("")), Set(result, p, Panicked)}
               /\ remaining' = Set(remaining, p, <<>>)
    /\ pc' = Set(pc, p, "done")
    /\ UNCHANGED <<callVars, label, url, requests, resp, dlVars, upVars, fs>>

(***************************************************************************)
(* put_key, put_package and upload.                                        *)
(***************************************************************************)
\* Sha256 of a byte string, as result_str() renders it
RECURSIVE Sha256Acc(_, _)
Sha256Acc(bytes, h) ==
    IF bytes = <<>> THEN h
    ELSE Sha256Acc(Tail(bytes), (h * 31 + Head(bytes)) % 1009)

Sha256(bytes) == ToString(Sha256Acc(bytes, 7))

\* file.read_to_end(&mut buffer) that leaves the buffer empty
read_to_end_nothing(content, pos) == <<>>

\* file.read_to_end(&mut buffer): the bytes from the handle's position on
read_to_end(content, pos) == Drop(content, pos)

\* file.seek(SeekFrom::Start(0)) left out: the position stays
seek_start_skipped(pos) == pos

\* file.seek(SeekFrom::Start(0)): the new position
seek_start(pos) == 0

\* Body::SizedBody(file, len): up to len bytes from the handle's position
SizedBody(content, pos, len) == SubSeq(content, pos + 1, Min(pos + len, Len(content)))

\* File::open(path), path.file_name(), the URL
PutKey(p) ==
    /\ pc[p] = "start" /\ op[p] = "put_key"
    /\ \/ /\ result' = Set(result, p, Err("Io"))
          /\ pc' = Set(pc, p, "done")
          /\ UNCHANGED <<url, fpos>>
       \/ /\ lname[p] = <<>>
          /\ result' = Set(result, p, Err("NoFilePart"))
          /\ pc' = Set(pc, p, "done")
          /\ fpos' = Set(fpos, p, 0)
          /\ UNCHANGED url
       \/ /\ lname[p] # <<>>
          /\ url' = Set(url, p, repo[p] \o "/keys/" \o lname[p][1])
          /\ fpos' = Set(fpos, p, 0)
          /\ pc' = Set(pc, p, "upload")
          /\ UNCHANGED result
    /\ UNCHANGED <<callVars, label, requests, resp, remaining, dlVars, fs>>

\* File::open, read_to_end, the digest, the URL
PutPackage(p) ==
    /\ pc[p] = "start" /\ op[p] = "put_package"
    /\ \/ /\ result' = Set(result, p, Err("Io"))
          /\ pc' = Set(pc, p, "done")
          /\ \E n \in 0..Len(lfile[p]) : fpos' = Set(fpos, p, n)
          /\ UNCHANGED url
       \/ LET buffer == read_to_end(lfile[p], 0)
              checksum == Sha256(buffer)
          IN  /\ url' = Set(url, p,
                     repo[p] \o "/pkgs/" \o ident[p].origin \o "/" \o ident[p].name \o "/"
                         \o ident[p].version[1] \o "/" \o ident[p].release[1]
                         \o "?checksum=" \o checksum)
              /\ fpos' = Set(fpos, p, Len(lfile[p]))
              /\ pc' = Set(pc, p, "upload")
              /\ UNCHANGED result
    /\ UNCHANGED <<callVars, label, requests, resp, remaining, dlVars, fs>>

\* the status test of upload, mutated to accept StatusCode::Ok alone
upload_status_ok_only200(s) == s = StatusOk

\* response.status.is_success()
upload_status_ok(s) == is_success(s)

(***************************************************************************)
(* upload: seek, metadata, post with a sized body, the status test.        *)
(* onError is where control goes when the exchange fails: upload returns   *)
(* ("done").                                                               *)
(***************************************************************************)
upload_attempt(p, onError) ==
    /\ pc[p] = "upload"
    /\ \/ \* try!(file.seek(..)) fails
          /\ result' = Set(result, p, Err("Io"))
          /\ pc' = Set(pc, p, "done")
          /\ UNCHANGED <<fpos, requests, resp>>
       \/ \* try!(file.metadata()) fails
          /\ fpos' = Set(fpos, p, seek_start(fpos[p]))
          /\ result' = Set(result, p, Err("Io"))
          /\ pc' = Set(pc, p, "done")
          /\ UNCHANGED <<requests, resp>>
       \/ LET pos == seek_start(fpos[p])
              len == Len(lfile[p])
              body == SizedBody(lfile[p], pos, len)
          IN  /\ requests' = Set(requests, p, Append(requests[p], Post(url[p], body, len)))
              /\ fpos' = Set(fpos, p, pos + Len(body))
              /\ \/ /\ result' = Set(result, p, Err("Hyper"))
                    /\ pc' = Set(pc, p, onError)
                    /\ UNCHANGED resp
                 \/ \E s \in Statuses :
                        /\ resp' = Set(resp, p, [NoResponse EXCEPT !.status = s])
                        /\ IF upload_status_ok(s)
                           THEN /\ result' = Set(result, p, Ok(""))
                                /\ pc' = Set(pc, p, "done")
                           ELSE /\ result' = Set(result, p, ErrHTTP(s))
                                /\ pc' = Set(pc, p, onError)
    /\ UNCHANGED <<callVars, label, url, remaining, dlVars, fs>>

\* upload that tries again when the exchange failed
upload_retry(p) == upload_attempt(p, "upload")

upload(p) == upload_attempt(p, "done")

\* the caller invokes upload once more on the same handle
CallUploadAgain(p) ==
    /\ pc[p] = "done" /\ op[p] = "upload"
    /\ Len(requests[p]) < MaxUploads
    /\ pc' = Set(pc, p, "upload")
    /\ result' = Set(result, p, Pending)
    /\ UNCHANGED <<callVars, netVars, dlVars, upVars, fs>>

\* a call of url_show_package alone
UrlShowPackage(p) ==
    /\ pc[p] = "start" /\ op[p] = "url_show_package"
    /\ url' = Set(url, p, url_show_package(repo[p], ident[p]))
    /\ pc' = Set(pc, p, "done")
    /\ UNCHANGED <<callVars, label, requests, resp, remaining, dlVars, upVars, result, fs>>

(***************************************************************************)
(* Initial states and specifications.                                      *)
(***************************************************************************)
Idle(f) == [p \in Procs |-> f]

\* what every call starts from, whatever the operation
InitLocals ==
    /\ label = Idle("")
    /\ requests = Idle(<<>>)
    /\ resp = Idle(NoResponse)
    /\ remaining = Idle(<<>>)
    /\ chunk = Idle(<<>>)
    /\ fpath = Idle("")
    /\ wbuf = Idle(<<>>)
    /\ written = Idle(0)
    /\ progress = Idle(<<>>)
    /\ stdout = Idle(<<>>)
    /\ fcLength = 0 /\ fcCh = "" /\ fcOut = <<>>
    /\ dropErr = Idle(FALSE)
    /\ dlResult = Idle(Pending)
    /\ result = Idle(Pending)

\* the destination directory: no .tmp file, a final file of an earlier download or none
InitFs ==
    /\ fs0 \in {f \in [Paths -> {NoFile, FileOf(OldData)}] :
                   \A n \in FileNames : f[TempFile(Store, n)] = NoFile}
    /\ fs = fs0

EmptyFs ==
    /\ fs0 = [q \in Paths |-> NoFile]
    /\ fs = fs0

SomeRepo == "http://repo.example"
SomeIdents ==
    {i \in Idents : i.origin = "core" /\ i.name = "foo"
                    /\ i.version \in {<<>>, <<"1.0.0">>} /\ i.release \in {<<>>, <<"20160101">>}}
Keys == {"chef-public"}
LocalNames == {<<>>, <<"chef-public.pub">>}

\* one call of one of the five public operations
Init ==
    /\ active = {1}
    /\ served = Bodies
    /\ pc = [p \in Procs |-> IF p = 1 THEN "start" ELSE "idle"]
    /\ repo = Idle(SomeRepo)
    /\ InitLocals
    /\ url = Idle("")
    /\ fpos = Idle(0)
    /\ \/ /\ op = [p \in Procs |-> IF p = 1 THEN "fetch_key" ELSE "none"]
          /\ key \in [Procs -> Keys]
          /\ ident = Idle(NoIdent) /\ lfile = Idle(<<>>) /\ lname = Idle(<<>>)
          /\ InitFs
       \/ /\ op = [p \in Procs |-> IF p = 1 THEN "fetch_package" ELSE "none"]
          /\ \E i \in SomeIdents : ident = [p \in Procs |-> IF p = 1 THEN i ELSE NoIdent]
          /\ key = Idle("") /\ lfile = Idle(<<>>) /\ lname = Idle(<<>>)
          /\ InitFs
       \/ /\ op = [p \in Procs |-> IF p = 1 THEN "show_package" ELSE "none"]
          /\ \E i \in SomeIdents : ident = [p \in Procs |-> IF p = 1 THEN i ELSE NoIdent]
          /\ key = Idle("") /\ lfile = Idle(<<>>) /\ lname = Idle(<<>>)
          /\ EmptyFs
       \/ /\ op = [p \in Procs |-> IF p = 1 THEN "put_key" ELSE "none"]
          /\ \E c \in Bodies, n \in LocalNames :
                 /\ lfile = [p \in Procs |-> IF p = 1 THEN c ELSE <<>>]
                 /\ lname = [p \in Procs |-> IF p = 1 THEN n ELSE <<>>]
          /\ key = Idle("") /\ ident = Idle(NoIdent)
          /\ EmptyFs
       \/ /\ op = [p \in Procs |-> IF p = 1 THEN "put_package" ELSE "none"]
          /\ \E c \in Bodies, i \in {j \in SomeIdents : fully_qualified(j)} :
                 /\ lfile = [p \in Procs |-> IF p = 1 THEN c ELSE <<>>]
                 /\ ident = [p \in Procs |-> IF p = 1 THEN i ELSE NoIdent]
          /\ key = Idle("") /\ lname = Idle(<<>>)
          /\ EmptyFs

Next ==
    \/ \E p \in active : FetchKey(p)
    \/ \E p \in active : FetchPackage(p)
    \/ \E p \in active : DownloadSend(p)
    \/ \E p \in active : DownloadCheckResponse(p)
    \/ \E p \in active : DownloadCreate(p)
    \/ \E p \in active : DownloadRead(p)
    \/ \E p \in active : DownloadWrite(p)
    \/ \E p \in active : DownloadRename(p)
    \/ \E p \in active : DownloadDrop(p)
    \/ \E p \in active : FetchKeyReturn(p)
    \/ \E p \in active : FetchPackageReturn(p)
    \/ \E p \in active : ShowPackageSend(p)
    \/ \E p \in active : ShowPackageRespond(p)
    \/ \E p \in active : PutKey(p)
    \/ \E p \in active : PutPackage(p)
    \/ \E p \in active : upload(p)

Spec == Init /\ [][Next]_vars

\* upload called on a handle the caller has left at any position, then again
InitUpload ==
    /\ active = {1}
    /\ served = Bodies
    /\ pc = [p \in Procs |-> IF p = 1 THEN "upload" ELSE "idle"]
    /\ op = [p \in Procs |-> IF p = 1 THEN "upload" ELSE "none"]
    /\ repo = Idle(SomeRepo)
    /\ InitLocals
    /\ EmptyFs
    /\ key = Idle("") /\ ident = Idle(NoIdent) /\ lname = Idle(<<>>)
    /\ url = [p \in Procs |-> IF p = 1 THEN SomeRepo \o "/keys/chef-public.pub" ELSE ""]
    /\ \E c \in Bodies, n \in 0..MaxBody :
           /\ n <= Len(c)
           /\ lfile = [p \in Procs |-> IF p = 1 THEN c ELSE <<>>]
           /\ fpos = [p \in Procs |-> IF p = 1 THEN n ELSE 0]

NextUpload ==
    \/ \E p \in active : upload(p)
    \/ \E p \in active : CallUploadAgain(p)

SpecUpload == InitUpload /\ [][NextUpload]_vars

\* url_show_package applied to every repository address and identifier
InitUrl ==
    /\ active = {1}
    /\ served = Bodies
    /\ pc = [p \in Procs |-> IF p = 1 THEN "start" ELSE "idle"]
    /\ op = [p \in Procs |-> IF p = 1 THEN "url_show_package" ELSE "none"]
    /\ InitLocals
    /\ EmptyFs
    /\ url = Idle("")
    /\ fpos = Idle(0)
    /\ key = Idle("") /\ lfile = Idle(<<>>) /\ lname = Idle(<<>>)
    /\ \E r \in Repos, i \in Idents :
           /\ repo = [p \in Procs |-> IF p = 1 THEN r ELSE ""]
           /\ ident = [p \in Procs |-> IF p = 1 THEN i ELSE NoIdent]

NextUrl ==
    \/ \E p \in active : UrlShowPackage(p)

SpecUrl == InitUrl /\ [][NextUrl]_vars

\* from_char called alone on every length and character
MaxCount == 9
Chars == {"x", "a", "0", " ", "\n", Backspace}

FromChar ==
    /\ fcOut = <<>>
    /\ pc[1] = "start" /\ op[1] = "from_char"
    /\ fcOut' = <<from_char(fcLength, fcCh)>>
    /\ pc' = Set(pc, 1, "done")
    /\ UNCHANGED <<active, op, repo, ident, key, lfile, lname, fs0, served, fcLength, fcCh,
                   netVars, dlVars, upVars, result, fs>>

InitFromChar ==
    /\ active = {1}
    /\ served = Bodies
    /\ pc = [p \in Procs |-> IF p = 1 THEN "start" ELSE "idle"]
    /\ op = [p \in Procs |-> IF p = 1 THEN "from_char" ELSE "none"]
    /\ repo = Idle(SomeRepo)
    /\ label = Idle("") /\ url = Idle("") /\ requests = Idle(<<>>) /\ resp = Idle(NoResponse)
    /\ remaining = Idle(<<>>) /\ chunk = Idle(<<>>) /\ fpath = Idle("") /\ wbuf = Idle(<<>>)
    /\ written = Idle(0) /\ progress = Idle(<<>>) /\ stdout = Idle(<<>>)
    /\ dropErr = Idle(FALSE) /\ dlResult = Idle(Pending) /\ result = Idle(Pending)
    /\ fpos = Idle(0)
    /\ EmptyFs
    /\ key = Idle("") /\ ident = Idle(NoIdent) /\ lfile = Idle(<<>>) /\ lname = Idle(<<>>)
    /\ fcLength \in 0..MaxCount
    /\ fcCh \in Chars
    /\ fcOut = <<>>

NextFromChar ==
    \/ FromChar

SpecFromChar == InitFromChar /\ [][NextFromChar]_vars

\* a body long enough for `written` to pass from one digit to two
LongBody == [i \in 1..10 |-> 1]

\* one fetch_key whose answer carries the long body
InitProgress ==
    /\ active = {1}
    /\ served = {LongBody}
    /\ pc = [p \in Procs |-> IF p = 1 THEN "start" ELSE "idle"]
    /\ op = [p \in Procs |-> IF p = 1 THEN "fetch_key" ELSE "none"]
    /\ repo = Idle(SomeRepo)
    /\ InitLocals
    /\ url = Idle("")
    /\ fpos = Idle(0)
    /\ key \in [Procs -> Keys]
    /\ ident = Idle(NoIdent) /\ lfile = Idle(<<>>) /\ lname = Idle(<<>>)
    /\ EmptyFs

NextDownload ==
    \/ \E p \in active : FetchKey(p)
    \/ \E p \in active : DownloadSend(p)
    \/ \E p \in active : DownloadCheckResponse(p)
    \/ \E p \in active : DownloadCreate(p)
    \/ \E p \in active : DownloadRead(p)
    \/ \E p \in active : DownloadWrite(p)
    \/ \E p \in active : DownloadRename(p)
    \/ \E p \in active : DownloadDrop(p)
    \/ \E p \in active : FetchKeyReturn(p)

SpecProgress == InitProgress /\ [][NextDownload]_vars

\* two fetch_key calls that run together, in any interleaving
ConcurrentBodies == {<<1>>, <<1, 2>>}

InitConcurrent ==
    /\ active = {1, 2}
    /\ served = ConcurrentBodies
    /\ pc = [p \in Procs |-> "start"]
    /\ op = [p \in Procs |-> "fetch_key"]
    /\ repo = Idle(SomeRepo)
    /\ InitLocals
    /\ url = Idle("")
    /\ fpos = Idle(0)
    /\ key \in [Procs -> Keys]
    /\ ident = Idle(NoIdent) /\ lfile = Idle(<<>>) /\ lname = Idle(<<>>)
    /\ EmptyFs

SpecConcurrent == InitConcurrent /\ [][NextDownload]_vars

(***************************************************************************)
(* The claims.                                                             *)
(***************************************************************************)
Downloading(p) == op[p] \in {"fetch_key", "fetch_package"}
Uploading(p) == op[p] \in {"put_key", "put_package"}

\* p has a response whose status and file name let download create its file
HasTarget(p) ==
    /\ Downloading(p)
    /\ pc[p] \notin {"start", "download"}
    /\ resp[p].status = StatusOk
    /\ resp[p].hasName

tempfile(p) == TempFile(Store, resp[p].name)
finalfile(p) == FinalFile(Store, resp[p].name)

\* download has returned to its caller
Returned(p) == pc[p] \in {"ret", "done"}

\* p received a response (send did not fail)
Answered(p) == Len(requests[p]) >= 1 /\ resp[p].status # 0

\* C1: whenever a file stands at the final path of a download (and none stood
\* there before), the whole body has been read and the file holds all of it,
\* with no byte still pending in the buffered writer.
C1_FinalOnlyWhenComplete ==
    \A p \in active :
        (HasTarget(p) /\ ~fs0[finalfile(p)].exists /\ fs[finalfile(p)].exists)
            => /\ remaining[p] = <<>>
               /\ wbuf[p] = <<>>
               /\ fs[finalfile(p)].data = resp[p].body

\* C2: a download that returns Ok, no write having failed, leaves a final file
\* byte-for-byte equal to the response body, however the reads split the body
\* and however many bytes (at least one) each write accepts.
C2_FileEqualsBody ==
    \A p \in active :
        (HasTarget(p) /\ Returned(p) /\ dlResult[p].tag = "Ok" /\ ~dropErr[p])
            => /\ fs[finalfile(p)].exists
               /\ fs[finalfile(p)].data = resp[p].body

\* C3: fetch_package and show_package answer a 'not found' status with
\* RemotePackageNotFound(ident) and every other non-success status with
\* HTTP(status).
C3_NotFoundOnlyFor404 ==
    \A p \in active :
        (/\ op[p] \in {"fetch_package", "show_package"}
         /\ pc[p] = "done"
         /\ Answered(p)
         /\ ~is_success(resp[p].status))
            => IF resp[p].status = StatusNotFound
               THEN result[p] = ErrRemotePackageNotFound(ident[p])
               ELSE result[p] = ErrHTTP(resp[p].status)

\* C4: every request upload sends carries the whole file as its body and the
\* file's byte length as its declared length, whatever the handle's position
\* was when upload was entered (first call or a repeated one).
C4_UploadSendsWholeFile ==
    \A p \in active :
        \A i \in 1..Len(requests[p]) :
            /\ requests[p][i].method = "POST"
            /\ requests[p][i].body = lfile[p]
            /\ requests[p][i].len = Len(lfile[p])

\* two uploads in a row on one handle of a non-empty file: the second one is
\* entered with the handle at end-of-file
C4_Witness ==
    /\ Len(requests[1]) = 2
    /\ Len(lfile[1]) >= 2
    /\ pc[1] = "done"

\* C5: the checksum in put_package's URL is the digest of exactly the bytes
\* sent as the request body, and the body is the full file content.
C5_ChecksumOfBody ==
    \A p \in active :
        (op[p] = "put_package" /\ Len(requests[p]) >= 1)
            => /\ requests[p][1].url =
                      repo[p] \o "/pkgs/" \o ident[p].origin \o "/" \o ident[p].name \o "/"
                          \o ident[p].version[1] \o "/" \o ident[p].release[1]
                          \o "?checksum=" \o Sha256(requests[p][1].body)
               /\ requests[p][1].body = lfile[p]

\* put_package has sent a non-empty file
C5_Witness ==
    /\ op[1] = "put_package"
    /\ Len(requests[1]) = 1
    /\ Len(requests[1][1].body) >= 2

\* C6: url_show_package yields repo/pkgs/origin/name/version/release for a
\* fully qualified identifier, .../version/latest when only the release is
\* absent, and repo/pkgs/origin/name/latest when both are absent.
C6_ShowUrl ==
    \A p \in active :
        (op[p] = "url_show_package" /\ pc[p] = "done")
            => LET i == ident[p]
                   base == repo[p] \o "/pkgs/" \o i.origin \o "/" \o i.name
               IN  /\ (i.version # <<>> /\ i.release # <<>>)
                          => url[p] = base \o "/" \o i.version[1] \o "/" \o i.release[1]
                   /\ (i.version # <<>> /\ i.release = <<>>)
                          => url[p] = base \o "/" \o i.version[1] \o "/latest"
                   /\ (i.version = <<>> /\ i.release = <<>>)
                          => url[p] = base \o "/latest"

\* the URL of an identifier with a version and no release has been built
C6_Witness ==
    /\ op[1] = "url_show_package"
    /\ pc[1] = "done"
    /\ ident[1].version # <<>>
    /\ ident[1].release = <<>>

\* C7: a response whose status is not OK makes download return HTTP(status),
\* with nothing read from the body and the destination directory unchanged.
C7_NonOkStatus ==
    \A p \in active :
        (/\ Downloading(p)
         /\ pc[p] \notin {"start", "download", "status"}
         /\ Answered(p)
         /\ resp[p].status # StatusOk)
            => /\ dlResult[p] = ErrHTTP(resp[p].status)
               /\ remaining[p] = resp[p].body
               /\ fpath[p] = ""
               /\ fs = fs0

\* a download answered 201 with a body has returned
C7_Witness ==
    /\ Downloading(1)
    /\ pc[1] = "done"
    /\ resp[1].status = 201
    /\ resp[1].body # <<>>

\* C8: a response with status OK and no file-name header makes download
\* return NoXFilename with no file created.
C8_NoFileName ==
    \A p \in active :
        (/\ Downloading(p)
         /\ pc[p] \notin {"start", "download", "status"}
         /\ resp[p].status = StatusOk
         /\ ~resp[p].hasName)
            => /\ dlResult[p] = Err("NoXFilename")
               /\ fpath[p] = ""
               /\ fs = fs0

\* a download answered OK without the header has returned
C8_Witness ==
    /\ Downloading(1)
    /\ pc[1] = "done"
    /\ resp[1].status = StatusOk
    /\ ~resp[1].hasName
    /\ resp[1].body # <<>>

\* C9: upload returns Ok exactly when the response status is in the success
\* class, and HTTP(status) for every other status.
C9_UploadStatus ==
    \A p \in active :
        (Uploading(p) /\ pc[p] = "done")
            => /\ result[p].tag = "Ok" => (Answered(p) /\ is_success(resp[p].status))
               /\ (Answered(p) /\ is_success(resp[p].status)) => result[p] = Ok("")
               /\ (Answered(p) /\ ~is_success(resp[p].status))
                      => result[p] = ErrHTTP(resp[p].status)

\* an upload answered 201 has returned Ok
C9_Witness ==
    /\ Uploading(1)
    /\ pc[1] = "done"
    /\ resp[1].status = 201
    /\ result[1].tag = "Ok"

\* C10: a call of any of the five operations issues at most one HTTP request,
\* also after a failure.
C10_OneRequest ==
    \A p \in active : Len(requests[p]) <= 1

\* an upload has failed on the status of its one request and returned
C10_Witness ==
    /\ Uploading(1)
    /\ pc[1] = "done"
    /\ result[1].kind = "HTTP"
    /\ Len(requests[1]) = 1

\* C11: fetch_key returns what download returned, unmodified: a 'not found'
\* status yields HTTP(404), never RemotePackageNotFound, and a successful
\* download yields the final path download returned.
C11_FetchKeyPassesThrough ==
    \A p \in active :
        (op[p] = "fetch_key" /\ pc[p] = "done")
            => /\ result[p] = dlResult[p]
               /\ result[p].kind # "RemotePackageNotFound"
               /\ (Answered(p) /\ resp[p].status = StatusNotFound)
                      => result[p] = ErrHTTP(StatusNotFound)
               /\ result[p].tag = "Ok" => result[p].path = finalfile(p)

\* fetch_key has returned after a 'not found' answer
C11_Witness ==
    /\ op[1] = "fetch_key"
    /\ pc[1] = "done"
    /\ resp[1].status = StatusNotFound
    /\ result[1].tag = "Err"

\* n copies of the character ch
RECURSIVE Copies(_, _)
Copies(n, ch) == IF n = 0 THEN "" ELSE ch \o Copies(n - 1, ch)

\* C12: every progress call of a download prints two strings: first only
\* backspaces, at least as many as the byte length of the string the call
\* before it rendered, then '{label} {bytesWritten}/{totalLengthText}', ended
\* by a newline exactly when finished is true.
C12_ProgressRendering ==
    \A p \in active :
        /\ Len(stdout[p]) = 2 * Len(progress[p])
        /\ \A i \in 1..Len(progress[p]) :
               LET call == progress[p][i]
                   erase == stdout[p][2 * i - 1]
                   text == stdout[p][2 * i]
               IN  /\ erase = Copies(Len(erase), Backspace)
                   /\ i > 1 => Len(erase) >= Len(stdout[p][2 * i - 2])
                   /\ text = call.status \o " " \o ToString(call.written) \o "/" \o call.length
                                 \o (IF call.finished THEN "\n" ELSE "")

\* a download has reported 9 or fewer bytes, then 10, then finished
C12_Witness ==
    /\ Len(progress[1]) >= 3
    /\ progress[1][Len(progress[1])].finished
    /\ progress[1][Len(progress[1])].written = 10
    /\ progress[1][Len(progress[1]) - 2].written < 10
    /\ ~progress[1][Len(progress[1]) - 2].finished

\* C18: from_char(length, ch) is the string of exactly `length` copies of ch,
\* the empty string when length is 0.
C18_FromChar ==
    fcOut # <<>>
        => /\ fcOut[1] = Copies(fcLength, fcCh)
           /\ Len(fcOut[1]) = fcLength
           /\ fcLength = 0 => fcOut[1] = ""

\* from_char has returned four copies of 'x', as in the source's test
C18_Witness ==
    /\ fcOut = <<"xxxx">>
    /\ fcLength = 4
    /\ fcCh = "x"

\* everything call q keeps for itself
LocalsOf(q) ==
    <<pc[q], requests[q], resp[q], remaining[q], chunk[q], fpath[q], wbuf[q], written[q],
      progress[q], stdout[q], dropErr[q], dlResult[q], result[q]>>

\* what holds of a call's own file when the call runs alone: until download
\* leaves its loop, the file and the BufWriter together hold `written` bytes
OwnFileAsAlone(p) ==
    pc[p] \in {"read", "write", "rename"}
        => /\ fs[fpath[p]].exists
           /\ Len(fs[fpath[p]].data) + Len(wbuf[p]) = written[p]

\* a step of call p leaves call q and q's two paths as they were
StepLeavesOther(p, q) ==
    (pc'[p] # pc[p] /\ resp[p].name # resp[q].name)
        => /\ LocalsOf(q)' = LocalsOf(q)
           /\ resp[q].name # ""
                  => /\ fs'[tempfile(q)] = fs[tempfile(q)]
                     /\ fs'[finalfile(q)] = fs[finalfile(q)]

\* C13: of two downloads that run together under different file names, every
\* step of one leaves the other's state and the other's .tmp and final paths
\* untouched, so each call's file and result are what they are when the call
\* runs alone.
C13_NoInterference ==
    /\ [](\A p \in active : OwnFileAsAlone(p))
    /\ [][\A p \in active : \A q \in active \ {p} : StepLeavesOther(p, q)]_vars

\* one call has renamed its file while the other is in the middle of its body
C13_Witness ==
    /\ active = {1, 2}
    /\ pc[1] = "drop" /\ dlResult[1].tag = "Ok"
    /\ pc[2] = "write" /\ written[2] > 0
    /\ resp[1].name # resp[2].name

\* download has failed with WriteSyncFailed
Stalled(p) == dlResult[p].kind = "WriteSyncFailed"

\* C14: a write that accepts no byte of a non-empty slice ends download at
\* once with WriteSyncFailed: the loop never goes on after it, nothing more is
\* read, no rename happens, the .tmp file stays and the final path is as it
\* was before the call.
C14_WriteStall ==
    /\ [](\A p \in active :
             Stalled(p) => /\ pc[p] \in {"drop", "ret", "done"}
                           /\ fs[tempfile(p)].exists
                           /\ fs[finalfile(p)] = fs0[finalfile(p)])
    /\ [][\A p \in active :
             /\ (pc[p] = "write" /\ pc'[p] = "read") => written'[p] > written[p]
             /\ (pc[p] = "write" /\ pc'[p] # "read" /\ dlResult'[p].kind # "Io")
                    => Stalled(p)'
             /\ Stalled(p) => /\ Stalled(p)'
                              /\ remaining'[p] = remaining[p]
                              /\ requests'[p] = requests[p]
                              /\ fpath'[p] = fpath[p]
                              /\ fs'[finalfile(p)] = fs[finalfile(p)]]_vars

\* a download stopped by a stalled write in the middle of the body has returned
C14_Witness ==
    /\ pc[1] = "done"
    /\ result[1] = Err("WriteSyncFailed")
    /\ remaining[1] # <<>>
    /\ fs[tempfile(1)].exists
    /\ ~fs[finalfile(1)].exists

\* download has failed with an I/O error after File::create succeeded
IoFailed(p) == dlResult[p] = Err("Io") /\ fpath[p] # ""

Reports(p) == progress[p]

\* the non-final reports come first and their counts strictly increase
NonFinalIncreasing(p) ==
    \A i, j \in 1..Len(Reports(p)) :
        (i < j /\ ~Reports(p)[i].finished /\ ~Reports(p)[j].finished)
            => Reports(p)[i].written < Reports(p)[j].written

\* a final report is the last report, so there is at most one
FinalIsLast(p) ==
    \A i \in 1..Len(Reports(p)) : Reports(p)[i].finished => i = Len(Reports(p))

\* the count of the final report is the count of the report before it
\* (0 when there is none)
FinalRepeatsTotal(p) ==
    \A i \in 1..Len(Reports(p)) :
        Reports(p)[i].finished
            => Reports(p)[i].written = IF i = 1 THEN 0 ELSE Reports(p)[i - 1].written

\* the last count is `written`, the number of bytes the writer holds or has
\* put into the file
CountIsAccepted(p) ==
    /\ Reports(p) # <<>> => Reports(p)[Len(Reports(p))].written = written[p]
    /\ (fpath[p] # "" /\ pc[p] \in {"read", "write", "rename", "drop"})
           => written[p] = Len(fs[fpath[p]].data) + Len(wbuf[p])

\* C16 as stated: the counts of all reports, the final one included, strictly
\* increase, each is the number of bytes accepted so far, and the final report
\* comes once, last.
C16_AllCountsIncrease ==
    \A p \in active :
        /\ \A i, j \in 1..Len(Reports(p)) :
               i < j => Reports(p)[i].written < Reports(p)[j].written
        /\ CountIsAccepted(p)
        /\ FinalIsLast(p)

\* C16, amended: the counts of the non-final reports strictly increase and the
\* final report repeats the last of them (0 for an empty body); each count is
\* the number of bytes the writer has accepted so far; the final report is
\* made exactly once, on end of stream, after every other report and before
\* the rename; a download that fails in the loop makes no final report.
C16_ProgressReports ==
    /\ [](\A p \in active :
             /\ NonFinalIncreasing(p)
             /\ FinalIsLast(p)
             /\ FinalRepeatsTotal(p)
             /\ CountIsAccepted(p)
             /\ (Reports(p) # <<>> /\ Reports(p)[Len(Reports(p))].finished)
                    => /\ remaining[p] = <<>>
                       /\ pc[p] \in {"rename", "drop", "ret", "done"}
             /\ (HasTarget(p) /\ pc[p] \in {"rename", "drop", "ret", "done"}
                     /\ (dlResult[p].tag = "Ok" \/ fs[finalfile(p)] # fs0[finalfile(p)]))
                    => /\ Reports(p) # <<>>
                       /\ Reports(p)[Len(Reports(p))].finished)
    /\ [][\A p \in active :
             /\ progress'[p] # progress[p]
                    => /\ Len(progress'[p]) = Len(progress[p]) + 1
                       /\ SubSeq(progress'[p], 1, Len(progress[p])) = progress[p]
                       /\ IF progress'[p][Len(progress'[p])].finished
                          THEN /\ pc[p] = "read" /\ pc'[p] = "rename"
                               /\ remaining[p] = <<>>
                               /\ dlResult'[p] = Pending
                               /\ fs' = fs
                          ELSE /\ pc[p] = "write" /\ pc'[p] = "read"
                               /\ written'[p] > written[p]
             /\ (pc[p] = "read" /\ pc'[p] = "rename") => progress'[p] # progress[p]
             /\ (pc[p] = "write" /\ pc'[p] = "read") => progress'[p] # progress[p]
             /\ (pc[p] \in {"read", "write"} /\ dlResult'[p].tag = "Err")
                    => /\ progress'[p] = progress[p]
                       /\ \A i \in 1..Len(progress[p]) : ~progress[p][i].finished]_vars

\* a download of a body of several bytes, taken in more than one write, has
\* returned Ok: the final report stands after the non-final ones and repeats
\* the last count
C16_Witness ==
    /\ pc[1] = "done"
    /\ result[1].tag = "Ok"
    /\ Len(Reports(1)) >= 3
    /\ Reports(1)[Len(Reports(1))].finished
    /\ Reports(1)[Len(Reports(1))].written = Reports(1)[Len(Reports(1)) - 1].written
    /\ Reports(1)[Len(Reports(1))].written = Len(resp[1].body)

\* the file that stood at a final path before the call is still there, unchanged
OldFileKept(f) == fs[FinalFile(Store, f)] = fs0[FinalFile(Store, f)]

\* C17: a file that stood at the final path before a download is left as it
\* was by every download that fails; it is replaced only by the rename, and
\* then holds the whole new body.
C17_OldFileKeptOrReplaced ==
    \A p \in active :
        Downloading(p) =>
            \A f \in FileNames :
                fs0[FinalFile(Store, f)].exists =>
                    \/ OldFileKept(f)
                    \/ /\ HasTarget(p)
                       /\ f = resp[p].name
                       /\ pc[p] \in {"drop", "ret", "done"}
                       /\ dlResult[p].tag = "Ok"
                       /\ fs[FinalFile(Store, f)].data = resp[p].body

====
